---- MODULE Spec2Model ----
(***************************************************************************)
(* Short-cycling detection of agautam/caretaker_ai_test.                   *)
(*                                                                         *)
(* Two programs read the CSV file: analyze_hvac.main, and the API, whose    *)
(* /diagnose runs its own copy of detect_short_cycling.                    *)
(*                                                                         *)
(* A reading table (a pandas DataFrame) is a record                        *)
(*     [dtype |-> dtype of the timestamp column, rows |-> sequence of rows]*)
(* and a row is [timestamp, unit_id, energy_consumption].  Time is counted *)
(* in ticks of 2.5 minutes, so timedelta(hours=1) is 24 ticks and the      *)
(* generator's 5-minute sampling interval is 2 ticks.  A timestamp read    *)
(* from the CSV file is text: two decimal digits <<tens, ones>>;           *)
(* pd.to_datetime parses it to a tick count.  Units are numbered: unit k   *)
(* stands for 'UNIT_00k', and the numbers order as the strings do.         *)
(***************************************************************************)
EXTENDS Integers, Sequences, FiniteSets, TLC

VARIABLES
    df,                    \* the reading table the caller holds
    short_cycling_events,  \* the dictionary the last detection run returned
    transitions,           \* the ON->OFF transitions the last run found, per unit
    prev,                  \* the run before the last one (at most one): its results
                           \* and what was done to the table after it
    last_op,               \* the last thing done to the table
    inserted,              \* the reading added since the last run (at most one)
    report,                \* the event periods the last run printed, per unit
    hvac_df,               \* the API's global table: << >> is None, else <<table>>
    response,              \* the body of the last /diagnose response
    kept,                  \* the unit whose readings an edit of the others left alone: << >> or <<u>>
    copies,                \* both copies of the detector called on one table: << >> or <<the call and its results>>
    server,                \* the API process: its phase, whether the CSV file exists, the last request and its answer
    agent                  \* ai_technician.main: where it stands, the loop counter, the last response of the model

vars == <<df, short_cycling_events, transitions, prev, last_op, inserted, report,
          hvac_df, response, kept, copies, server, agent>>

-----------------------------------------------------------------------------
(* Program constants *)

\* timedelta(hours=1), in ticks of 2.5 minutes
Hour == 24

\* energy_threshold=1.0
energy_threshold == 1

\* len(transitions_in_window) > 3
window_limit == 3

\* interval_minutes=5, in ticks
interval == 2

(* Bounds of the model *)

\* the enumerated tables sample the first unit at 0, interval, ..., MaxBurst * interval,
\* and at Hour and Hour + interval
MaxBurst == 7

\* max_iterations = 10
max_iterations == 10

\* the bursts of the tables with several bursts have at most MaxCycles ON/OFF cycles
MaxCycles == 4

\* a response of the model has at most MaxParts parts
MaxParts == 2

-----------------------------------------------------------------------------
(* Timestamps *)

\* pd.to_datetime on one CSV string
ToDatetime(s) == 10 * s[1] + s[2]

\* Timestamp.isoformat()
isoformat(t) == <<t \div 10, t % 10>>

\* df['timestamp'] = pd.to_datetime(df['timestamp']), when the column holds strings
to_datetime(d) ==
    IF d.dtype = "object"
    THEN [dtype |-> "datetime64",
          rows  |-> [i \in 1..Len(d.rows) |->
                       [d.rows[i] EXCEPT !.timestamp = ToDatetime(d.rows[i].timestamp)]]]
    ELSE d

-----------------------------------------------------------------------------
(* Sorting *)

\* whether row a sorts strictly before row b under sort_values(by), by one or two columns
RowLess(by, a, b) ==
    \/ a[by[1]] < b[by[1]]
    \/ Len(by) > 1 /\ a[by[1]] = b[by[1]] /\ a[by[2]] < b[by[2]]

\* no sorting: the rows stay in the caller's order
sort_values_caller_order(s, by) == s

\* DataFrame.sort_values(by).reset_index(drop=True) on the rows (SortSeq is an
\* insertion sort: rows of equal key keep their order)
sort_values(s, by) == SortSeq(s, LAMBDA a, b : RowLess(by, a, b))

\* sorted(list(set(xs))) on timestamps
RECURSIVE SortedList(_)
SortedList(S) ==
    IF S = {} THEN << >>
    ELSE LET m == CHOOSE x \in S : \A y \in S : x <= y
         IN <<m>> \o SortedList(S \ {m})

Range(s) == {s[i] : i \in 1..Len(s)}

-----------------------------------------------------------------------------
(* analyze_hvac.detect_short_cycling *)

\* the classifier with >= for >: a reading at the threshold counts as ON
state_at_least(r, threshold) == IF r.energy_consumption >= threshold THEN 1 ELSE 0

\* df['state'] = (df['energy_consumption'] > energy_threshold).astype(int)
state(r, threshold) == IF r.energy_consumption > threshold THEN 1 ELSE 0

\* unit_data without the selection by unit: every unit is handed all the rows
unit_data_all_units(rows, unit_id) == sort_values(rows, <<"timestamp">>)

\* df[df['unit_id'] == unit_id].copy().sort_values('timestamp')
unit_data(rows, unit_id) ==
    sort_values(SelectSeq(rows, LAMBDA r : r.unit_id = unit_id), <<"timestamp">>)

\* state_change comparing for any change of state: OFF->ON counts as well
state_change_any_edge(ud, i, threshold) ==
    /\ i > 1
    /\ state(ud[i - 1], threshold) # state(ud[i], threshold)

\* state_change with shift(1, fill_value=1): row 1 is taken to follow an ON reading
state_change_fill(ud, i, threshold) ==
    /\ i = 1 \/ state(ud[i - 1], threshold) = 1
    /\ state(ud[i], threshold) = 0

\* state_change of row i: (prev_state == 1) & (state == 0); shift(1) leaves row 1
\* without a previous state (NaN), which equals nothing
state_change(ud, i, threshold) ==
    /\ i > 1
    /\ state(ud[i - 1], threshold) = 1
    /\ state(ud[i], threshold) = 0

\* the timestamps of unit_data[unit_data['state_change'] == True], in row order
RECURSIVE TransitionsUpTo(_, _, _)
TransitionsUpTo(ud, n, threshold) ==
    IF n = 0 THEN << >>
    ELSE LET before == TransitionsUpTo(ud, n - 1, threshold)
         IN IF state_change(ud, n, threshold)
            THEN Append(before, ud[n].timestamp)
            ELSE before

unit_transitions(ud, threshold) == TransitionsUpTo(ud, Len(ud), threshold)

\* the window closed on the right: timestamp <= window_end
transitions_in_window_inclusive(tr, current_time) ==
    LET window_end == current_time + Hour
    IN SelectSeq(tr, LAMBDA t : t >= current_time /\ t <= window_end)

\* the window without its right end: every later transition counts
transitions_in_window_unbounded(tr, current_time) ==
    SelectSeq(tr, LAMBDA t : t >= current_time)

\* transitions[(timestamp >= current_time) & (timestamp < window_end)]
transitions_in_window(tr, current_time) ==
    LET window_end == current_time + Hour
    IN SelectSeq(tr, LAMBDA t : t >= current_time /\ t < window_end)

\* the inner loop: append each timestamp of the window not yet in the list
RECURSIVE AppendNew(_, _)
AppendNew(list, win) ==
    IF win = << >> THEN list
    ELSE AppendNew(IF win[1] \in Range(list) THEN list ELSE Append(list, win[1]),
                   Tail(win))

\* the loop with >= for >: 3 transitions in the hour are enough
RECURSIVE WindowLoop_at_least(_, _)
WindowLoop_at_least(tr, n) ==
    IF n = 0 THEN << >>
    ELSE LET list == WindowLoop_at_least(tr, n - 1)
             win  == transitions_in_window(tr, tr[n])
         IN IF Len(win) >= window_limit THEN AppendNew(list, win) ELSE list

\* the loop assigning the window to the list instead of appending to it
RECURSIVE WindowLoop_overwrite(_, _)
WindowLoop_overwrite(tr, n) ==
    IF n = 0 THEN << >>
    ELSE LET list == WindowLoop_overwrite(tr, n - 1)
             win  == transitions_in_window(tr, tr[n])
         IN IF Len(win) > window_limit THEN win ELSE list

\* the loop over range(len(transitions)), its first n iterations
RECURSIVE WindowLoop(_, _)
WindowLoop(tr, n) ==
    IF n = 0 THEN << >>
    ELSE LET list == WindowLoop(tr, n - 1)
             win  == transitions_in_window(tr, tr[n])
         IN IF Len(win) > window_limit THEN AppendNew(list, win) ELSE list

\* the loop extending the list by every flagging window as it is, with neither the
\* `not in` test nor sorted(list(set(...))) after it
RECURSIVE EveryWindow(_, _)
EveryWindow(tr, n) ==
    IF n = 0 THEN << >>
    ELSE LET win == transitions_in_window(tr, tr[n])
         IN EveryWindow(tr, n - 1) \o (IF Len(win) > window_limit THEN win ELSE << >>)

short_cycle_timestamps_every_window(tr) == EveryWindow(tr, Len(tr))

\* short_cycle_timestamps of one unit after the loop, deduplicated and sorted
short_cycle_timestamps(tr) == SortedList(Range(WindowLoop(tr, Len(tr))))

\* df['unit_id'].unique()
unique_units(rows) == {rows[i].unit_id : i \in 1..Len(rows)}

\* the body of detect_short_cycling up to the dictionary: the table after the
\* conversion, the units, and per unit the transitions and short_cycle_timestamps
unit_loop(d, threshold) ==
    LET converted == to_datetime(d)
        sorted    == sort_values(converted.rows, <<"unit_id", "timestamp">>)
        units     == unique_units(sorted)
        tr        == [u \in units |-> unit_transitions(unit_data(sorted, u), threshold)]
    IN [converted   |-> converted,
        units       |-> units,
        transitions |-> tr,
        flagged     |-> [u \in units |-> IF Len(tr[u]) = 0 THEN << >>
                                        ELSE short_cycle_timestamps(tr[u])]]

\* the call without `if short_cycle_timestamps:`: every unit with a transition is a key
detect_short_cycling_every_unit(d, threshold) ==
    LET l == unit_loop(d, threshold)
    IN [df          |-> l.converted,
        transitions |-> l.transitions,
        events      |-> [u \in {v \in l.units : Len(l.transitions[v]) # 0} |-> l.flagged[u]]]

\* the call with df['state'] written into the caller's energy_consumption column
detect_short_cycling_writes_state(d, threshold) ==
    LET l == unit_loop(d, threshold)
    IN [df          |-> [l.converted EXCEPT !.rows =
                           [i \in 1..Len(l.converted.rows) |->
                              [l.converted.rows[i] EXCEPT !.energy_consumption =
                                  state(l.converted.rows[i], threshold)]]],
        transitions |-> l.transitions,
        events      |-> [u \in {v \in l.units : l.flagged[v] # << >>} |-> l.flagged[u]]]

\* the call detect_short_cycling(df, energy_threshold): what the caller's table is
\* afterwards, the returned dictionary, and the transitions found per unit
detect_short_cycling(d, threshold) ==
    LET l == unit_loop(d, threshold)
    IN [df          |-> l.converted,
        transitions |-> l.transitions,
        events      |-> [u \in {v \in l.units : l.flagged[v] # << >>} |-> l.flagged[u]]]

-----------------------------------------------------------------------------
(* api.detect_short_cycling, the API's own copy, and api.diagnose *)

\* the API's classifier with >= for >
api_state_at_least(r, threshold) == IF r.energy_consumption >= threshold THEN 1 ELSE 0

\* df['state'] = (df['energy_consumption'] > energy_threshold).astype(int)
api_state(r, threshold) == IF r.energy_consumption > threshold THEN 1 ELSE 0

\* (unit_data['prev_state'] == 1) & (unit_data['state'] == 0) at row i
api_state_change(ud, i, threshold) ==
    /\ i > 1
    /\ api_state(ud[i - 1], threshold) = 1
    /\ api_state(ud[i], threshold) = 0

\* the timestamps of unit_data[unit_data['state_change'] == True]
api_transitions(ud, threshold) ==
    LET changed == SelectSeq([i \in 1..Len(ud) |-> i],
                             LAMBDA i : api_state_change(ud, i, threshold))
    IN [k \in 1..Len(changed) |-> ud[changed[k]].timestamp]

\* transitions[(timestamp >= current_time) & (timestamp < window_end)]
api_transitions_in_window(tr, current_time) ==
    SelectSeq(tr, LAMBDA t : t >= current_time /\ t < current_time + Hour)

\* the loop over range(len(transitions)), its first n iterations
RECURSIVE api_window_loop(_, _)
api_window_loop(tr, n) ==
    IF n = 0 THEN << >>
    ELSE LET list == api_window_loop(tr, n - 1)
             win  == api_transitions_in_window(tr, tr[n])
         IN IF Len(win) > window_limit
            THEN list \o SelectSeq(win, LAMBDA t : t \notin Range(list))
            ELSE list

\* the call detect_short_cycling(hvac_df, energy_threshold) of the API
api_detect_short_cycling(d, threshold) ==
    LET converted == to_datetime(d)
        sorted    == sort_values(converted.rows, <<"unit_id", "timestamp">>)
        units     == unique_units(sorted)
        tr        == [u \in units |->
                        api_transitions(
                            sort_values(SelectSeq(sorted, LAMBDA r : r.unit_id = u),
                                        <<"timestamp">>),
                            threshold)]
        flagged   == [u \in units |->
                        IF Len(tr[u]) = 0 THEN << >>
                        ELSE SortedList(Range(api_window_loop(tr[u], Len(tr[u]))))]
    IN [df          |-> converted,
        transitions |-> tr,
        events      |-> [u \in {v \in units : flagged[v] # << >>} |-> flagged[u]]]

\* result[unit_id] = [ts.isoformat() for ts in timestamps]
diagnose_result(events) ==
    [u \in DOMAIN events |-> [i \in 1..Len(events[u]) |-> isoformat(events[u][i])]]

-----------------------------------------------------------------------------
(* The API process: api.lifespan and the request handlers *)

\* the process after `import api`: hvac_df = None, nothing requested yet
Imported(csv_exists) ==
    [phase      |-> "imported",
     csv_exists |-> csv_exists,
     loads      |-> 0,
     request    |-> "none",
     status     |-> 0,
     detail     |-> ""]

\* raise HTTPException(status_code=500, detail="Data not loaded")
DataNotLoaded == [status |-> 500, detail |-> "Data not loaded", body |-> << >>]

\* an exception no handler catches: the framework answers 500 Internal Server Error
InternalServerError == [status |-> 500, detail |-> "Internal Server Error", body |-> << >>]

\* hvac_df['timestamp'].idxmax(): the first row holding the greatest timestamp
idxmax(rows) ==
    CHOOSE i \in 1..Len(rows) :
        /\ \A j \in 1..Len(rows) : rows[j].timestamp <= rows[i].timestamp
        /\ \A j \in 1..(i - 1) : rows[j].timestamp < rows[i].timestamp

\* api.get_latest, given the global hvac_df: idxmax raises ValueError on an empty column
get_latest(h) ==
    IF h = << >> THEN DataNotLoaded
    ELSE IF Len(h[1].rows) = 0 THEN InternalServerError
    ELSE LET latest_row == h[1].rows[idxmax(h[1].rows)]
         IN [status |-> 200,
             detail |-> "",
             body   |-> [latest_row EXCEPT !.timestamp = isoformat(latest_row.timestamp)]]

\* diagnose without `if hvac_df is None`: detect_short_cycling(None) raises TypeError
diagnose_unchecked(h) ==
    IF h = << >> THEN [InternalServerError EXCEPT !.body = [hvac_df |-> h]]
    ELSE LET r == api_detect_short_cycling(h[1], energy_threshold)
         IN [status |-> 200,
             detail |-> "",
             body   |-> [result |-> diagnose_result(r.events), hvac_df |-> <<r.df>>]]

\* api.diagnose, given the global hvac_df: the answer, and hvac_df as the call of
\* detect_short_cycling leaves it
diagnose(h) ==
    IF h = << >> THEN [DataNotLoaded EXCEPT !.body = [hvac_df |-> h]]
    ELSE LET r == api_detect_short_cycling(h[1], energy_threshold)
         IN [status |-> 200,
             detail |-> "",
             body   |-> [result |-> diagnose_result(r.events), hvac_df |-> <<r.df>>]]

-----------------------------------------------------------------------------
(* ai_technician.main: the function-calling loop *)

\* main before chat.send_message(user_message)
BeforeChat ==
    [pc        |-> "send",
     iteration |-> 0,
     response  |-> << >>,
     calls     |-> 0,
     handled   |-> << >>]

\* the function names a function-call part may carry: the two declared tools, and a
\* name that is neither
FunctionNames == {"get_sensor_data", "consult_manual", "reset_unit"}

\* the parts of a response: text, or a function call
Parts ==
    {[text |-> "text", function_call |-> << >>]}
        \cup {[text |-> "", function_call |-> <<name>>] : name \in FunctionNames}

\* what chat.send_message may return: no candidates, a candidate without content, or
\* a candidate whose content has up to MaxParts parts
Responses ==
    {[candidates |-> << >>], [candidates |-> <<[content |-> << >>]>>]}
        \cup {[candidates |-> <<[content |-> <<[parts |-> parts]>>]>>] :
                 parts \in UNION {[1..n -> Parts] : n \in 0..MaxParts}}

\* handle_function_call: which tool runs
handle_function_call(function_name) ==
    IF function_name = "get_sensor_data" THEN "get_sensor_data()"
    ELSE IF function_name = "consult_manual" THEN "consult_manual(topic)"
    ELSE "error: Unknown function"

\* `not response.candidates`
no_candidates(reply) == reply.candidates = << >>

\* `not hasattr(candidate, 'content') or not candidate.content`
no_content(reply) == reply.candidates[1].content = << >>

\* the function-call parts of candidates[0], in order
function_call_parts(reply) ==
    SelectSeq(reply.candidates[1].content[1].parts, LAMBDA part : part.function_call # << >>)

\* the for loop without its break: every function-call part of the response is handled
function_calls_handled_all(reply) == function_call_parts(reply)

\* the function calls one pass of the for loop handles: it breaks after the first
function_calls_handled(reply) ==
    IF function_call_parts(reply) = << >> THEN << >>
    ELSE <<function_call_parts(reply)[1]>>

-----------------------------------------------------------------------------
(* analyze_hvac.print_short_cycling_results *)

\* the grouping loop with < for <=: a gap of exactly 1 hour starts a new event
RECURSIVE GroupUpTo_strict(_, _)
GroupUpTo_strict(timestamps, n) ==
    IF n = 1 THEN [events |-> << >>, current_event |-> <<timestamps[1]>>]
    ELSE LET g    == GroupUpTo_strict(timestamps, n - 1)
             last == g.current_event[Len(g.current_event)]
         IN IF timestamps[n] - last < Hour
            THEN [g EXCEPT !.current_event = Append(g.current_event, timestamps[n])]
            ELSE [events        |-> Append(g.events, g.current_event),
                  current_event |-> <<timestamps[n]>>]

\* the grouping loop after its first n timestamps: the closed events and current_event
RECURSIVE GroupUpTo(_, _)
GroupUpTo(timestamps, n) ==
    IF n = 1 THEN [events |-> << >>, current_event |-> <<timestamps[1]>>]
    ELSE LET g    == GroupUpTo(timestamps, n - 1)
             last == g.current_event[Len(g.current_event)]
         IN IF timestamps[n] - last <= Hour
            THEN [g EXCEPT !.current_event = Append(g.current_event, timestamps[n])]
            ELSE [events        |-> Append(g.events, g.current_event),
                  current_event |-> <<timestamps[n]>>]

\* the events of one unit: consecutive timestamps within 1 hour of each other
group_events(timestamps) ==
    IF timestamps = << >> THEN << >>
    ELSE LET g == GroupUpTo(timestamps, Len(timestamps))
         IN Append(g.events, g.current_event)

\* what is printed of one event: Start, End, Duration and Transitions
event_period(event) ==
    [start       |-> event[1],
     end         |-> event[Len(event)],
     duration    |-> event[Len(event)] - event[1],
     transitions |-> Len(event)]

\* what is printed: per unit, its event periods
print_short_cycling_results(events) ==
    [u \in DOMAIN events |-> group_events(events[u])]

-----------------------------------------------------------------------------
(* The reading tables the detector is run on *)

Units == {1, 2}

\* energy readings: below, at and above the threshold
EnergyLevels == {0, 1, 2}

\* the sampling instants of the enumerated tables: a burst at the generator's
\* interval, then two samples on the far side of the hour
SampleSeq ==
    [i \in 1..(MaxBurst + 3) |->
        IF i <= MaxBurst + 1 THEN (i - 1) * interval
        ELSE Hour + (i - MaxBurst - 2) * interval]

\* one row as read_csv delivers it: the timestamp is text
CsvRow(t, u, e) == [timestamp |-> isoformat(t), unit_id |-> u, energy_consumption |-> e]

\* the first n samples of one unit, with the energies e[1..n]
UnitRows(u, n, e) == [i \in 1..n |-> CsvRow(SampleSeq[i], u, e[i])]

\* the energies unit 1 reports over its first n samples: each at or above the threshold
BurstEnergies == UNION { [1..n -> {1, 2}] : n \in 0..(MaxBurst + 3) }

\* what unit 2 reports besides: nothing, one idle sample, one ON->OFF cycle
MinorEnergies == {<< >>, <<0>>, <<2, 0>>}

\* a week of one cycle per day: unit u is ON at the start of each day, OFF gap later
DailyRows(u, gap) ==
    [i \in 1..14 |->
        CsvRow(((i - 1) \div 2) * 24 * Hour + (IF i % 2 = 1 THEN 0 ELSE gap), u,
               IF i % 2 = 1 THEN 2 ELSE 0)]

\* the tables read from the CSV file, unit by unit as the generator writes them;
\* unit 2 reports on its own or at the same instants with the same energies as unit 1;
\* and the week of daily cycles
CsvTables ==
    { [dtype |-> "object", rows |-> UnitRows(1, Len(p[1]), p[1]) \o UnitRows(2, Len(p[2]), p[2])] :
        p \in (BurstEnergies \X MinorEnergies) \cup { <<e, e>> : e \in BurstEnergies } }
    \cup { [dtype |-> "object", rows |-> DailyRows(1, gap)] : gap \in {interval, Hour} }

-----------------------------------------------------------------------------
(* Operations *)

Init ==
    /\ df \in CsvTables
    /\ short_cycling_events = << >>
    /\ transitions = << >>
    /\ prev = << >>
    /\ last_op = "read_csv"
    /\ inserted = << >>
    /\ report = << >>
    /\ hvac_df = << >>
    /\ response = << >>
    /\ kept = << >>
    /\ copies = << >>
    /\ server = Imported(TRUE)
    /\ agent = BeforeChat

\* analyze_hvac.main, after the table is loaded: detect_short_cycling(df, 1.0), then
\* print_short_cycling_results; run at most twice on end
Detect ==
    /\ last_op \notin {"startup", "diagnose"}
    /\ ~(last_op = "detect" /\ prev # << >>)
    /\ LET r == detect_short_cycling(df, energy_threshold)
       IN /\ df' = r.df
          /\ short_cycling_events' = r.events
          /\ transitions' = r.transitions
          /\ report' = print_short_cycling_results(r.events)
    /\ prev' = IF last_op = "read_csv" THEN << >>
               ELSE <<[events      |-> short_cycling_events,
                       transitions |-> transitions,
                       then        |-> last_op,
                       inserted    |-> inserted]>>
    /\ last_op' = "detect"
    /\ inserted' = << >>
    /\ UNCHANGED <<hvac_df, response, kept, copies, server, agent>>

\* api.lifespan, up to the yield: the API loads the file instead and parses the
\* timestamps
Startup ==
    /\ last_op = "read_csv"
    /\ hvac_df' = <<to_datetime(df)>>
    /\ last_op' = "startup"
    /\ UNCHANGED <<df, short_cycling_events, transitions, prev, inserted, report, response,
                   kept, copies, server, agent>>

\* api.diagnose on the loaded table; requested at most twice on end
Diagnose ==
    /\ last_op \in {"startup", "diagnose"}
    /\ hvac_df # << >>
    /\ prev = << >>
    /\ LET r == api_detect_short_cycling(hvac_df[1], energy_threshold)
       IN /\ hvac_df' = <<r.df>>
          /\ short_cycling_events' = r.events
          /\ transitions' = r.transitions
          /\ response' = diagnose_result(r.events)
    /\ prev' = IF last_op = "startup" THEN << >>
               ELSE <<[events      |-> short_cycling_events,
                       transitions |-> transitions,
                       then        |-> last_op,
                       inserted    |-> inserted]>>
    /\ last_op' = "diagnose"
    /\ UNCHANGED <<df, inserted, report, kept, copies, server, agent>>

\* the rows in the opposite order
Reverse(s) == [i \in 1..Len(s) |-> s[Len(s) + 1 - i]]

\* the rows with the first k moved to the end
Rotate(s, k) == [i \in 1..Len(s) |-> s[((i - 1 + k) % Len(s)) + 1]]

\* the rows taken in turn from the front and from the back
Riffle(s) ==
    [i \in 1..Len(s) |-> IF i % 2 = 1 THEN s[(i + 1) \div 2] ELSE s[Len(s) + 1 - (i \div 2)]]

\* the orders the same rows are handed over in
Reorderings(s) == {Reverse(s), Rotate(s, 1), Riffle(s)} \ {s}

\* the caller hands the same rows over in another order, once, between two runs
Permute ==
    /\ last_op = "detect"
    /\ prev = << >>
    /\ \E rows \in Reorderings(df.rows) : df' = [df EXCEPT !.rows = rows]
    /\ last_op' = "permute"
    /\ UNCHANGED <<short_cycling_events, transitions, prev, inserted, report,
                   hvac_df, response, kept, copies, server, agent>>

\* the instants a reading is added at: between the first two samples, and after the
\* last one, within and beyond an hour of the burst
InsertTimes == {1, Hour + 3, Hour + 11}

\* the caller adds one OFF reading of unit 1 at an instant the unit has no reading
\* at, once, between two runs
InsertOff ==
    /\ last_op = "detect"
    /\ prev = << >>
    /\ \E t \in InsertTimes :
         LET row == [timestamp |-> t, unit_id |-> 1, energy_consumption |-> 0]
         IN /\ \A i \in 1..Len(df.rows) :
                 df.rows[i].unit_id = 1 => df.rows[i].timestamp # t
            /\ df' = [df EXCEPT !.rows = Append(df.rows, row)]
            /\ inserted' = <<row>>
    /\ last_op' = "insert"
    /\ UNCHANGED <<short_cycling_events, transitions, prev, report, hvac_df, response, kept,
                   copies, server, agent>>

Next == Detect \/ Permute \/ InsertOff \/ Startup \/ Diagnose

Spec == Init /\ [][Next]_vars

-----------------------------------------------------------------------------
(* The readings of the other units are edited between two runs *)

\* a reading taken for unit v, with ON and OFF exchanged
Exchanged(r, v) ==
    [r EXCEPT !.unit_id = v, !.energy_consumption = IF state(r, energy_threshold) = 1 THEN 0 ELSE 2]

\* what the units other than u may report instead: nothing at all, or, for one of
\* them, readings at the very instants of u's readings with ON and OFF exchanged
OtherReadings(rows, u) ==
    LET own == SelectSeq(rows, LAMBDA r : r.unit_id = u)
    IN {<< >>} \cup { [i \in 1..Len(own) |-> Exchanged(own[i], v)] : v \in Units \ {u} }

\* the caller replaces the readings of every unit but u, once, between two runs
EditOthers ==
    /\ last_op = "detect"
    /\ prev = << >>
    /\ \E u \in unique_units(df.rows) :
         \E others \in OtherReadings(df.rows, u) :
            /\ df' = [df EXCEPT !.rows = others \o SelectSeq(df.rows, LAMBDA r : r.unit_id = u)]
            /\ df' # df
            /\ kept' = <<u>>
    /\ last_op' = "edit_others"
    /\ UNCHANGED <<short_cycling_events, transitions, prev, inserted, report, hvac_df, response,
                   copies, server, agent>>

NextUnits == Detect \/ EditOthers

SpecUnits == Init /\ [][NextUnits]_vars

-----------------------------------------------------------------------------
(* Tables of several bursts of short cycling, for the event periods *)

\* n cycles of unit u from start on: ON, OFF, ON, OFF, ... at the sampling interval
Cycles(u, start, n) ==
    [i \in 1..(2 * n) |->
        CsvRow(start + (i - 1) * interval, u, IF i % 2 = 1 THEN 2 ELSE 0)]

\* the gaps between the last transition of a burst and the first of the next
Gaps == {Hour - 1, Hour, Hour + 1}

\* the cycles of a burst: none, too few to be flagged on their own, or enough
BurstSizes == {0} \cup (3..MaxCycles)

\* the rows of unit u: a flagged burst of b[1] cycles and, b[2] not being 0, a second
\* burst of b[2] cycles whose first transition is gap after the last of the first
TwoBursts(u, b, gap) ==
    LET first == Cycles(u, 0, b[1])
    IN IF b[2] = 0 THEN first
       ELSE first \o Cycles(u, ToDatetime(first[Len(first)].timestamp) + gap - interval, b[2])

\* what one unit may report
UnitBursts(u) ==
    {TwoBursts(u, b, gap) : b \in (4..MaxCycles) \X BurstSizes, gap \in Gaps}

\* unit 1 short-cycles in one or two bursts, and so does unit 2 if it reports
EpisodeTables ==
    { [dtype |-> "object", rows |-> p[1] \o p[2]] :
        p \in UnitBursts(1) \X ({<< >>} \cup UnitBursts(2)) }

InitEpisodes ==
    /\ df \in EpisodeTables
    /\ short_cycling_events = << >>
    /\ transitions = << >>
    /\ prev = << >>
    /\ last_op = "read_csv"
    /\ inserted = << >>
    /\ report = << >>
    /\ hvac_df = << >>
    /\ response = << >>
    /\ kept = << >>
    /\ copies = << >>
    /\ server = Imported(TRUE)
    /\ agent = BeforeChat

NextEpisodes == Detect

SpecEpisodes == InitEpisodes /\ [][NextEpisodes]_vars

-----------------------------------------------------------------------------
(* Both copies of detect_short_cycling, called on the same table *)

\* the energy_threshold arguments: below, at and above the readings' middle level
Thresholds == {0, 1, 2}

\* analyze_hvac.detect_short_cycling and api.detect_short_cycling are each handed the
\* rows of the file, as they are or out of order, and the same threshold
CallBoth ==
    /\ copies = << >>
    /\ \E threshold \in Thresholds :
         \E rows \in {df.rows, Riffle(df.rows)} :
            LET table == [df EXCEPT !.rows = rows]
            IN copies' = <<[threshold |-> threshold,
                            table     |-> table,
                            analyzer  |-> detect_short_cycling(table, threshold).events,
                            api       |-> api_detect_short_cycling(table, threshold).events]>>
    /\ UNCHANGED <<df, short_cycling_events, transitions, prev, last_op, inserted, report,
                   hvac_df, response, kept, server, agent>>

NextCopies == CallBoth

SpecCopies == Init /\ [][NextCopies]_vars

-----------------------------------------------------------------------------
(* The life of the API process *)

\* the CSV file is there, holding one of the tables, or it is missing
InitApi ==
    /\ df \in CsvTables
    /\ server \in {Imported(e) : e \in BOOLEAN}
    /\ ~server.csv_exists => df.rows = << >>
    /\ short_cycling_events = << >>
    /\ transitions = << >>
    /\ prev = << >>
    /\ last_op = "read_csv"
    /\ inserted = << >>
    /\ report = << >>
    /\ hvac_df = << >>
    /\ response = << >>
    /\ kept = << >>
    /\ copies = << >>
    /\ agent = BeforeChat

\* api.lifespan up to the yield, the file being there: hvac_df is loaded and its
\* timestamps are parsed
LifespanStartup ==
    /\ server.phase = "imported"
    /\ server.csv_exists
    /\ hvac_df' = <<to_datetime(df)>>
    /\ server' = [Imported(TRUE) EXCEPT !.phase = "serving", !.loads = server.loads + 1]
    /\ response' = << >>
    /\ UNCHANGED <<df, short_cycling_events, transitions, prev, last_op, inserted, report,
                   kept, copies, agent>>

\* api.lifespan, the file missing: FileNotFoundError, the application does not start
LifespanFails ==
    /\ server.phase = "imported"
    /\ ~server.csv_exists
    /\ server' = [Imported(FALSE) EXCEPT !.phase = "failed"]
    /\ response' = << >>
    /\ UNCHANGED <<df, short_cycling_events, transitions, prev, last_op, inserted, report,
                   hvac_df, kept, copies, agent>>

\* api.lifespan after the yield: hvac_df = None
LifespanShutdown ==
    /\ server.phase = "serving"
    /\ hvac_df' = << >>
    /\ server' = [server EXCEPT !.phase = "stopped", !.request = "none",
                                !.status = 0, !.detail = ""]
    /\ response' = << >>
    /\ UNCHANGED <<df, short_cycling_events, transitions, prev, last_op, inserted, report,
                   kept, copies, agent>>

\* what a handler leaves in the process: the request, its answer, and one more load
\* if the handler changed the dataset
Answered(request, answer, h) ==
    [server EXCEPT !.request = request,
                   !.status  = answer.status,
                   !.detail  = answer.detail,
                   !.loads   = IF h # hvac_df /\ h # << >> THEN server.loads + 1
                               ELSE server.loads]

\* GET /latest: the handler may be called in any phase of the process
GetLatest ==
    LET answer == get_latest(hvac_df)
    IN /\ server' = Answered("latest", answer, hvac_df)
       /\ response' = answer.body
       /\ UNCHANGED <<df, short_cycling_events, transitions, prev, last_op, inserted,
                      report, hvac_df, kept, copies, agent>>

\* GET /diagnose: the handler may be called in any phase of the process
GetDiagnose ==
    LET answer == diagnose(hvac_df)
    IN /\ server' = Answered("diagnose", answer, answer.body.hvac_df)
       /\ hvac_df' = answer.body.hvac_df
       /\ response' = IF answer.status = 200 THEN answer.body.result ELSE << >>
       /\ UNCHANGED <<df, short_cycling_events, transitions, prev, last_op, inserted,
                      report, kept, copies, agent>>

NextApi == LifespanStartup \/ LifespanFails \/ LifespanShutdown \/ GetLatest \/ GetDiagnose

SpecApi == InitApi /\ [][NextApi]_vars

-----------------------------------------------------------------------------
(* The steps of ai_technician.main *)

InitAgent ==
    /\ df = [dtype |-> "object", rows |-> << >>]
    /\ short_cycling_events = << >>
    /\ transitions = << >>
    /\ prev = << >>
    /\ last_op = "read_csv"
    /\ inserted = << >>
    /\ report = << >>
    /\ hvac_df = << >>
    /\ response = << >>
    /\ kept = << >>
    /\ copies = << >>
    /\ server = Imported(TRUE)
    /\ agent = BeforeChat

\* every step of main leaves the rest alone
AgentOnly ==
    UNCHANGED <<df, short_cycling_events, transitions, prev, last_op, inserted, report,
                hvac_df, response, kept, copies, server>>

\* response = chat.send_message(user_message); iteration = 0
SendUserMessage ==
    /\ agent.pc = "send"
    /\ \E reply \in Responses :
         agent' = [agent EXCEPT !.pc = "while", !.response = reply]
    /\ AgentOnly

\* one pass of the while loop that breaks: the response has no candidates
BreakNoCandidates ==
    /\ agent.pc = "while"
    /\ agent.iteration < max_iterations
    /\ no_candidates(agent.response)
    /\ agent' = [agent EXCEPT !.pc = "final", !.iteration = @ + 1, !.handled = << >>]
    /\ AgentOnly

\* one pass that breaks: the candidate has no content
BreakNoContent ==
    /\ agent.pc = "while"
    /\ agent.iteration < max_iterations
    /\ ~no_candidates(agent.response)
    /\ no_content(agent.response)
    /\ agent' = [agent EXCEPT !.pc = "final", !.iteration = @ + 1, !.handled = << >>]
    /\ AgentOnly

\* one pass that breaks: no part is a function call
BreakNoFunctionCall ==
    /\ agent.pc = "while"
    /\ agent.iteration < max_iterations
    /\ ~no_candidates(agent.response)
    /\ ~no_content(agent.response)
    /\ function_calls_handled(agent.response) = << >>
    /\ agent' = [agent EXCEPT !.pc = "final", !.iteration = @ + 1, !.handled = << >>]
    /\ AgentOnly

\* one pass that handles a function call: the tool runs, its result is sent to the
\* model, and the model's next response is awaited
HandleFunctionCall ==
    /\ agent.pc = "while"
    /\ agent.iteration < max_iterations
    /\ ~no_candidates(agent.response)
    /\ ~no_content(agent.response)
    /\ LET handled == function_calls_handled(agent.response)
       IN /\ handled # << >>
          /\ \E reply \in Responses :
               agent' = [agent EXCEPT
                            !.iteration = @ + 1,
                            !.calls     = @ + Len(handled),
                            !.handled   = [i \in 1..Len(handled) |->
                                              [name   |-> handled[i].function_call[1],
                                               result |-> handle_function_call(
                                                              handled[i].function_call[1])]],
                            !.response  = reply]
    /\ AgentOnly

\* the while condition fails: iteration has reached max_iterations
LoopExhausted ==
    /\ agent.pc = "while"
    /\ ~(agent.iteration < max_iterations)
    /\ agent' = [agent EXCEPT !.pc = "final"]
    /\ AgentOnly

\* the FINAL DIAGNOSIS is printed
FinalDiagnosis ==
    /\ agent.pc = "final"
    /\ agent' = [agent EXCEPT !.pc = "done"]
    /\ AgentOnly

NextAgent ==
    \/ SendUserMessage
    \/ BreakNoCandidates
    \/ BreakNoContent
    \/ BreakNoFunctionCall
    \/ HandleFunctionCall
    \/ LoopExhausted
    \/ FinalDiagnosis

\* main runs on: chat.send_message returns, whatever it returns
SpecAgent == InitAgent /\ [][NextAgent]_vars /\ WF_vars(NextAgent)

-----------------------------------------------------------------------------
(* What the claims speak of, read off the state after a run *)

\* a detection run has just returned
Ran == last_op \in {"detect", "diagnose"}

\* the table the last run was given
Table == IF last_op = "diagnose" THEN hvac_df[1] ELSE df

\* the readings of unit u in the table, in time order
ReadingsOf(u) ==
    SortSeq(SelectSeq(Table.rows, LAMBDA r : r.unit_id = u),
            LAMBDA a, b : a.timestamp < b.timestamp)

\* the timestamps of a sequence of readings
Stamps(rs) == {rs[i].timestamp : i \in 1..Len(rs)}

\* the transition timestamps the last run found for unit u
TransOf(u) == IF u \in DOMAIN transitions THEN Range(transitions[u]) ELSE {}

\* the timestamps the last run flagged for unit u
FlaggedOf(u) ==
    IF u \in DOMAIN short_cycling_events THEN Range(short_cycling_events[u]) ELSE {}

\* the members of T in the hour that starts at a
InHour(T, a) == {x \in T : a <= x /\ x < a + Hour}

\* the transitions of T at the left edge of an hour holding more than 3 of them
FlaggingEdges(T) == {a \in T : Cardinality(InHour(T, a)) > 3}

-----------------------------------------------------------------------------
(* Claims *)

\* C1: after a run, a timestamp is flagged for a unit iff it is a transition of the
\* unit lying in the half-open hour [a, a + Hour) of a transition a of the unit that
\* holds strictly more than 3 of the unit's transitions
C1_WindowRule ==
    Ran =>
        \A u \in Units :
            \A t \in TransOf(u) \cup FlaggedOf(u) :
                t \in FlaggedOf(u) <=>
                    /\ t \in TransOf(u)
                    /\ \E a \in FlaggingEdges(TransOf(u)) : a <= t /\ t < a + Hour

\* a unit with a transition exactly one hour after the left edge of a flagging hour
\* that holds exactly 4 transitions
C1_Witness ==
    /\ Ran
    /\ \E u \in DOMAIN short_cycling_events :
         \E a \in TransOf(u) :
            /\ a + Hour \in TransOf(u)
            /\ Cardinality(InHour(TransOf(u), a)) = 4
            /\ a \in FlaggedOf(u)

\* C2: after a run, the transitions of a unit are exactly the timestamps of its
\* readings, in time order, that are not the first, follow a reading classified ON
\* and are themselves classified OFF
C2_Transitions ==
    Ran =>
        \A u \in Units :
            LET rs == ReadingsOf(u)
            IN TransOf(u) =
                 { rs[i].timestamp : i \in
                     { j \in 1..Len(rs) :
                         /\ j # 1
                         /\ state(rs[j - 1], energy_threshold) = 1
                         /\ state(rs[j], energy_threshold) = 0 } }

\* a unit with an ON->OFF pair that is a transition, an OFF->ON pair that is none and
\* a first reading that is OFF
C2_Witness ==
    /\ Ran
    /\ \E u \in Units :
         LET rs == ReadingsOf(u)
         IN /\ Len(rs) >= 2
            /\ state(rs[1], energy_threshold) = 0
            /\ rs[1].timestamp \notin TransOf(u)
            /\ \E i \in 2..Len(rs) :
                 /\ state(rs[i - 1], energy_threshold) = 0
                 /\ state(rs[i], energy_threshold) = 1
                 /\ rs[i].timestamp \notin TransOf(u)
            /\ \E i \in 2..Len(rs) :
                 /\ state(rs[i - 1], energy_threshold) = 1
                 /\ state(rs[i], energy_threshold) = 0
                 /\ rs[i].timestamp \in TransOf(u)

\* C3: a reading is ON exactly when its energy_consumption is above 1.0: of two
\* consecutive readings of a unit the later is a transition iff the earlier is above
\* 1.0 and the later is not; so ON followed by a reading at 1.0 is a transition, and
\* a reading at 1.0 followed by an OFF reading is none
C3_Threshold ==
    Ran =>
        \A u \in Units :
            LET rs == ReadingsOf(u)
            IN \A i \in 2..Len(rs) :
                 LET p == rs[i - 1].energy_consumption
                     r == rs[i].energy_consumption
                 IN /\ rs[i].timestamp \in TransOf(u) <=> (p > 1 /\ ~(r > 1))
                    /\ (p > 1 /\ r = 1) => rs[i].timestamp \in TransOf(u)
                    /\ (p = 1 /\ r <= 1) => rs[i].timestamp \notin TransOf(u)

\* a unit with an ON reading followed by a reading at the threshold, and a reading
\* at the threshold followed by a reading below it
C3_Witness ==
    /\ Ran
    /\ \E u \in Units :
         LET rs == ReadingsOf(u)
         IN /\ \E i \in 2..Len(rs) :
                 /\ rs[i - 1].energy_consumption > 1
                 /\ rs[i].energy_consumption = 1
                 /\ rs[i].timestamp \in TransOf(u)
            /\ \E i \in 2..Len(rs) :
                 /\ rs[i - 1].energy_consumption = 1
                 /\ rs[i].energy_consumption < 1
                 /\ rs[i].timestamp \notin TransOf(u)

\* C4: the result of a run, and the /diagnose response built from it, has a unit as
\* a key iff the unit has a flagged timestamp, that is, a transition at the left
\* edge of an hour holding more than 3; no key maps to an empty list; when two units
\* report and only one short-cycles there is exactly one key
C4_KeysAreFlaggedUnits ==
    Ran =>
        /\ \A u \in Units :
              /\ u \in DOMAIN short_cycling_events <=> FlaggingEdges(TransOf(u)) # {}
              /\ u \in DOMAIN short_cycling_events => Len(short_cycling_events[u]) > 0
        /\ last_op = "diagnose" =>
              /\ DOMAIN response = DOMAIN short_cycling_events
              /\ \A u \in DOMAIN response : Len(response[u]) > 0
        /\ (/\ \A u \in Units : Len(ReadingsOf(u)) > 0
            /\ Cardinality({u \in Units : FlaggingEdges(TransOf(u)) # {}}) = 1)
              => Cardinality(DOMAIN short_cycling_events) = 1

\* two units with transitions of which only one short-cycles, and the one key
C4_Witness ==
    /\ Ran
    /\ \A u \in Units : TransOf(u) # {}
    /\ Cardinality({u \in Units : FlaggingEdges(TransOf(u)) # {}}) = 1
    /\ Cardinality(DOMAIN short_cycling_events) = 1

\* the table holds one unit alone, whose readings alternate ON/OFF every 5 minutes
Alternating(u) ==
    LET rs == ReadingsOf(u)
    IN /\ Len(rs) = Len(Table.rows)
       /\ Len(rs) >= 2
       /\ \A i \in 2..Len(rs) :
            /\ rs[i].timestamp - rs[i - 1].timestamp = interval
            /\ (rs[i].energy_consumption > 1) # (rs[i - 1].energy_consumption > 1)

\* the minutes from the first to the last reading of unit u (a tick is 2.5 minutes)
SpanMinutes(u) ==
    LET rs == ReadingsOf(u)
    IN ((rs[Len(rs)].timestamp - rs[1].timestamp) * 5) \div 2

\* C5 as claimed: a unit alternating ON/OFF every 5 minutes for 30 minutes is a key
\* of the result with all of its transitions, which form one event
C5_ScenarioA_AsClaimed ==
    last_op = "detect" =>
        \A u \in Units :
            (Alternating(u) /\ SpanMinutes(u) = 30) =>
                /\ u \in DOMAIN short_cycling_events
                /\ FlaggedOf(u) = TransOf(u)
                /\ Len(report[u]) = 1

\* C5 amended: a unit alternating ON/OFF every 5 minutes within one hour is a key of
\* the result, with all of its transitions in one event, iff it has more than 3
\* ON->OFF transitions; alternating for 30 minutes gives at most 3, so the unit is
\* absent; alternating for 35 minutes from ON gives 4, all flagged
C5_ScenarioA ==
    last_op = "detect" =>
        \A u \in Units :
            (Alternating(u) /\ SpanMinutes(u) < 60) =>
                /\ Cardinality(TransOf(u)) > 3 =>
                      /\ u \in DOMAIN short_cycling_events
                      /\ FlaggedOf(u) = TransOf(u)
                      /\ Len(report[u]) = 1
                      /\ Range(report[u][1]) = TransOf(u)
                /\ Cardinality(TransOf(u)) <= 3 => u \notin DOMAIN short_cycling_events
                /\ SpanMinutes(u) = 30 => u \notin DOMAIN short_cycling_events
                /\ (SpanMinutes(u) = 35 /\ ReadingsOf(u)[1].energy_consumption > 1) =>
                      Cardinality(FlaggedOf(u)) = 4

\* 35 minutes of alternation from ON: 4 transitions, all flagged, one event
C5_Witness ==
    /\ last_op = "detect"
    /\ \E u \in Units :
         /\ Alternating(u)
         /\ SpanMinutes(u) = 35
         /\ Cardinality(FlaggedOf(u)) = 4
         /\ Len(report[u]) = 1

\* C6: a unit whose transitions are pairwise at least 1 hour apart, as with one
\* ON->OFF transition per day for a week, has no flagged timestamp and is no key
C6_ScenarioB ==
    Ran =>
        \A u \in Units :
            (\A a, b \in TransOf(u) : a < b => b - a >= Hour) =>
                /\ FlaggedOf(u) = {}
                /\ u \notin DOMAIN short_cycling_events

\* a week: 7 transitions, one a day, and no key
C6_Witness ==
    /\ Ran
    /\ \E u \in Units :
         /\ Cardinality(TransOf(u)) = 7
         /\ \A a \in TransOf(u) :
               a + 24 * Hour \in TransOf(u) \/ (\A b \in TransOf(u) : b <= a)
         /\ u \notin DOMAIN short_cycling_events

\* C7: after a run, a unit with n >= 1 readings has at most n - 1 transitions, each
\* transition and each flagged timestamp is the timestamp of one of its readings,
\* and a unit with fewer than 2 readings has no transition
C7_TransitionBound ==
    Ran =>
        \A u \in Units :
            LET rs == ReadingsOf(u)
                n  == Len(rs)
            IN /\ n = 0 => u \notin DOMAIN transitions /\ u \notin DOMAIN short_cycling_events
               /\ n >= 1 => /\ u \in DOMAIN transitions
                            /\ Len(transitions[u]) <= n - 1
               /\ n < 2 => TransOf(u) = {} /\ FlaggedOf(u) = {}
               /\ TransOf(u) \subseteq Stamps(rs)
               /\ FlaggedOf(u) \subseteq Stamps(rs)

\* one unit with a single OFF reading, another with 2 readings and 1 transition
C7_Witness ==
    /\ Ran
    /\ \E u, v \in Units :
         /\ Len(ReadingsOf(u)) = 1
         /\ ReadingsOf(u)[1].energy_consumption <= 1
         /\ Len(ReadingsOf(v)) = 2
         /\ Len(transitions[v]) = 1

\* C8: a second run directly after a run, on the table as the first run left it,
\* returns the same dictionary: the same keys and the same lists
C8_Idempotent ==
    (Ran /\ prev # << >> /\ prev[1].then \in {"detect", "diagnose"}) =>
        /\ short_cycling_events = prev[1].events
        /\ transitions = prev[1].transitions

\* a second run of analyze_hvac's copy, whose first run was given string timestamps,
\* with something flagged
C8_Witness ==
    /\ last_op = "detect"
    /\ prev # << >>
    /\ prev[1].then = "detect"
    /\ prev[1].events # << >>
    /\ short_cycling_events = prev[1].events

\* the reading added between the last two runs
Added == prev[1].inserted[1]

\* the flagged timestamps of unit u in the run before the last
FlaggedBefore(u) == IF u \in DOMAIN prev[1].events THEN Range(prev[1].events[u]) ELSE {}

\* the added reading lies outside every hour that flagged timestamps of its unit in
\* the run before
AddedOutsideFlaggingHours ==
    LET T == IF Added.unit_id \in DOMAIN prev[1].transitions
             THEN Range(prev[1].transitions[Added.unit_id]) ELSE {}
    IN \A a \in FlaggingEdges(T) :
          ~(a <= Added.timestamp /\ Added.timestamp < a + Hour)

\* the reading of its unit that follows the added reading was flagged in the run before
AddedBeforeFlagged ==
    LET rs == ReadingsOf(Added.unit_id)
    IN \E i \in 2..Len(rs) :
          /\ rs[i - 1].timestamp = Added.timestamp
          /\ rs[i].timestamp \in FlaggedBefore(Added.unit_id)

\* every timestamp flagged in the run before is flagged in the last run
FlagsKept == \A u \in Units : FlaggedBefore(u) \subseteq FlaggedOf(u)

\* C9 as claimed: after an OFF reading is added outside every flagging hour, every
\* timestamp flagged before is still flagged
C9_Monotone_AsClaimed ==
    (last_op = "detect" /\ prev # << >> /\ prev[1].then = "insert") =>
        (AddedOutsideFlaggingHours => FlagsKept)

\* C9 amended: after an OFF reading is added outside every flagging hour and not
\* directly before a flagged reading of its unit, every timestamp flagged before is
\* still flagged
C9_Monotone ==
    (last_op = "detect" /\ prev # << >> /\ prev[1].then = "insert") =>
        ((AddedOutsideFlaggingHours /\ ~AddedBeforeFlagged) => FlagsKept)

\* an OFF reading added after a flagging hour became a transition, flagged itself,
\* and the flags of before are kept
C9_Witness ==
    /\ last_op = "detect"
    /\ prev # << >>
    /\ prev[1].then = "insert"
    /\ AddedOutsideFlaggingHours
    /\ ~AddedBeforeFlagged
    /\ FlaggedBefore(Added.unit_id) # {}
    /\ Added.timestamp \in FlaggedOf(Added.unit_id)
    /\ FlagsKept

\* C10: a run on the same rows in another order returns the same dictionary
C10_OrderIndependent ==
    (Ran /\ prev # << >> /\ prev[1].then = "permute") =>
        /\ short_cycling_events = prev[1].events
        /\ transitions = prev[1].transitions

\* a run on rows handed over out of order, the units interleaved, with flags
C10_Witness ==
    /\ last_op = "detect"
    /\ prev # << >>
    /\ prev[1].then = "permute"
    /\ short_cycling_events # << >>
    /\ short_cycling_events = prev[1].events
    /\ \E i \in 2..(Len(df.rows) - 1) :
          /\ df.rows[i].unit_id # df.rows[i - 1].unit_id
          /\ df.rows[i].unit_id # df.rows[i + 1].unit_id

\* C11: when the readings of every unit but u are removed or replaced, also by readings
\* at the instants of u's own, the next run has u as a key iff the run before had, with
\* the same flagged list, and finds the same transitions of u
C11_UnitIndependence ==
    (last_op = "detect" /\ prev # << >> /\ prev[1].then = "edit_others") =>
        LET u == kept[1]
        IN /\ u \in DOMAIN short_cycling_events <=> u \in DOMAIN prev[1].events
           /\ u \in DOMAIN short_cycling_events =>
                 short_cycling_events[u] = prev[1].events[u]
           /\ transitions[u] = prev[1].transitions[u]

\* a flagged unit keeps its list while another unit, given readings at the same
\* instants, becomes a key it was not before
C11_Witness ==
    /\ last_op = "detect"
    /\ prev # << >>
    /\ prev[1].then = "edit_others"
    /\ kept[1] \in DOMAIN short_cycling_events
    /\ short_cycling_events[kept[1]] = prev[1].events[kept[1]]
    /\ \E v \in DOMAIN short_cycling_events \ {kept[1]} :
          /\ v \notin DOMAIN prev[1].events
          /\ Stamps(ReadingsOf(v)) = Stamps(ReadingsOf(kept[1]))

\* C12 as claimed: a detection run leaves the table it is given as it was, rows, row
\* order, columns and values: the analyzer's table df and the API's table hvac_df
C12_InputUnchanged_AsClaimed ==
    [][/\ last_op' = "detect" => df' = df
       /\ last_op' = "diagnose" => hvac_df' = hvac_df]_vars

\* C13: the flagged list of every key of the result is strictly ascending, so it holds
\* no timestamp twice, also when a transition lies in several flagging hours; the
\* /diagnose response lists as many strings as the list has timestamps, the i-th
\* string encoding the i-th timestamp, so the strings are in ascending time order
C13_AscendingLists ==
    Ran =>
        /\ \A u \in DOMAIN short_cycling_events :
              LET list == short_cycling_events[u]
              IN \A i \in 2..Len(list) : list[i - 1] < list[i]
        /\ last_op = "diagnose" =>
              \A u \in DOMAIN response :
                  /\ Len(response[u]) = Len(short_cycling_events[u])
                  /\ \A i \in 1..Len(response[u]) :
                        ToDatetime(response[u][i]) = short_cycling_events[u][i]
                  /\ \A i \in 2..Len(response[u]) :
                        ToDatetime(response[u][i - 1]) < ToDatetime(response[u][i])

\* a /diagnose response for a unit with a transition in two flagging hours, which the
\* list holds once
C13_Witness ==
    /\ last_op = "diagnose"
    /\ \E u \in DOMAIN response :
         /\ \E t \in FlaggedOf(u) :
               Cardinality({a \in FlaggingEdges(TransOf(u)) : a <= t /\ t < a + Hour}) >= 2
         /\ Len(response[u]) = Cardinality(FlaggedOf(u))
         /\ Len(response[u]) >= 5

\* the events of a unit one after the other
RECURSIVE Flatten(_)
Flatten(seqs) == IF seqs = << >> THEN << >> ELSE seqs[1] \o Flatten(Tail(seqs))

\* the event that holds the i-th timestamp of the events taken one after the other
EventOf(groups, i) ==
    CHOOSE k \in 1..Len(groups) :
        LET before == Len(Flatten(SubSeq(groups, 1, k - 1)))
        IN before < i /\ i <= before + Len(groups[k])

\* C14: the events printed for a unit are non-empty, taken one after the other they
\* are the unit's flagged list, two adjacent flagged timestamps are in the same event
\* iff they are at most 1 hour apart (exactly 1 hour keeps them together), and the
\* Transitions count printed for an event is the number of flagged timestamps in it
C14_EventPeriods ==
    last_op = "detect" =>
        /\ DOMAIN report = DOMAIN short_cycling_events
        /\ \A u \in DOMAIN report :
              LET list   == short_cycling_events[u]
                  events == report[u]
              IN /\ \A k \in 1..Len(events) : Len(events[k]) > 0
                 /\ Flatten(events) = list
                 /\ \A i \in 2..Len(list) :
                       (EventOf(events, i - 1) = EventOf(events, i))
                           <=> (list[i] - list[i - 1] <= Hour)
                 /\ \A k \in 1..Len(events) :
                       LET period == event_period(events[k])
                       IN period.transitions =
                            Cardinality({t \in Range(list) :
                                            period.start <= t /\ t <= period.end})

\* two flagged bursts of one unit exactly 1 hour apart, printed as one event that
\* lasts more than an hour, and two flagged bursts of another unit more than 1 hour
\* apart, printed as two events
C14_Witness ==
    /\ last_op = "detect"
    /\ \E u \in DOMAIN report :
         LET list == short_cycling_events[u]
         IN /\ Len(report[u]) = 1
            /\ \E i \in 2..Len(list) : list[i] - list[i - 1] = Hour
            /\ event_period(report[u][1]).duration > Hour
            /\ event_period(report[u][1]).transitions = Len(list)
    /\ \E u \in DOMAIN report :
         LET list == short_cycling_events[u]
         IN /\ Len(report[u]) = 2
            /\ \E i \in 2..Len(list) :
                  /\ list[i] - list[i - 1] = Hour + 1
                  /\ EventOf(report[u], i - 1) = 1
                  /\ EventOf(report[u], i) = 2

\* C15: called on the same table with the same threshold, the copy of
\* detect_short_cycling in analyze_hvac.py and the copy in api.py return the same
\* dictionary: the same keys, and for each key the same list in the same order
C15_CopiesAgree ==
    copies # << >> =>
        /\ DOMAIN copies[1].analyzer = DOMAIN copies[1].api
        /\ \A u \in DOMAIN copies[1].analyzer :
              copies[1].analyzer[u] = copies[1].api[u]

\* both copies were handed rows out of order, a reading at the threshold among them,
\* and both return two keys
C15_Witness ==
    /\ copies # << >>
    /\ DOMAIN copies[1].analyzer = {1, 2}
    /\ DOMAIN copies[1].api = {1, 2}
    /\ copies[1].analyzer[1] = copies[1].api[1]
    /\ LET rows == copies[1].table.rows
       IN /\ \E i \in 2..Len(rows) : rows[i - 1].unit_id > rows[i].unit_id
          /\ \E i \in 1..Len(rows) : rows[i].energy_consumption = copies[1].threshold

\* C16: a request is answered 500 'Data not loaded' iff hvac_df is None; hvac_df is
\* None before startup, after a failed startup and after shutdown; startup loads it
\* once, when the CSV file is there, and no handler loads or changes it afterwards, so
\* while the process serves hvac_df is the parsed file and every answer 200 is computed
\* from it; when the file is missing the process never serves and answers no request 200
C16_DatasetLifecycle ==
    LET loaded == to_datetime(df)
    IN /\ server.request # "none" =>
             ((server.status = 500 /\ server.detail = "Data not loaded") <=> hvac_df = << >>)
       /\ server.phase \in {"imported", "failed", "stopped"} => hvac_df = << >>
       /\ server.phase = "serving" => hvac_df = <<loaded>>
       /\ server.loads = IF server.phase \in {"serving", "stopped"} THEN 1 ELSE 0
       /\ ~server.csv_exists =>
             /\ server.phase \in {"imported", "failed"}
             /\ server.status # 200
       /\ server.status = 200 =>
             /\ server.phase = "serving"
             /\ server.request = "latest" => response = get_latest(<<loaded>>).body
             /\ server.request = "diagnose" =>
                   response = diagnose_result(
                       api_detect_short_cycling(loaded, energy_threshold).events)

\* the file was loaded once, the process has shut down, and a request for the
\* diagnosis of a table with short cycling is answered 500 'Data not loaded'
C16_Witness ==
    /\ server.phase = "stopped"
    /\ server.loads = 1
    /\ server.request = "diagnose"
    /\ server.status = 500
    /\ server.detail = "Data not loaded"
    /\ hvac_df = << >>
    /\ diagnose(<<to_datetime(df)>>).body.result # << >>

\* the response lets the loop go on: it has a candidate with content and a
\* function-call part
AsksForFunction(reply) ==
    /\ reply.candidates # << >>
    /\ reply.candidates[1].content # << >>
    /\ \E i \in 1..Len(reply.candidates[1].content[1].parts) :
          reply.candidates[1].content[1].parts[i].function_call # << >>

\* the name in the first function-call part of a response
FirstFunctionName(reply) ==
    LET parts == reply.candidates[1].content[1].parts
        first == CHOOSE i \in 1..Len(parts) :
                    /\ parts[i].function_call # << >>
                    /\ \A j \in 1..(i - 1) : parts[j].function_call = << >>
    IN parts[first].function_call[1]

\* what holds of the loop at every moment
AgentLoopBounds ==
    /\ agent.iteration <= 10
    /\ agent.calls <= agent.iteration
    /\ agent.calls <= 10
    /\ Len(agent.handled) <= 1
    /\ agent.pc = "while" => agent.calls = agent.iteration
    /\ agent.pc \in {"final", "done"} =>
          \/ /\ agent.iteration = agent.calls + 1
             /\ ~AsksForFunction(agent.response)
          \/ /\ agent.iteration = 10
             /\ agent.calls = 10

\* what holds of every step taken at the head of the loop: below 10 passes it is one
\* more pass, which handles one function call, the first of the response, and goes on
\* if the response has one, and which handles none and leaves the loop otherwise; at
\* 10 passes it leaves the loop
AgentLoopPass ==
    (agent.pc = "while" /\ agent' # agent) =>
        IF agent.iteration < 10
        THEN /\ agent'.iteration = agent.iteration + 1
             /\ IF AsksForFunction(agent.response)
                THEN /\ agent'.calls = agent.calls + 1
                     /\ Len(agent'.handled) = 1
                     /\ agent'.handled[1].name = FirstFunctionName(agent.response)
                     /\ agent'.pc = "while"
                ELSE /\ agent'.calls = agent.calls
                     /\ agent'.handled = << >>
                     /\ agent'.pc = "final"
        ELSE /\ agent'.iteration = agent.iteration
             /\ agent'.calls = agent.calls
             /\ agent'.pc = "final"

\* C17: whatever the model replies, the loop makes at most 10 passes, each pass handles
\* at most one function call, the first of the response, so at most 10 are handled;
\* the loop is left in the first pass whose response has no candidates, no content or
\* no function-call part, else after the 10th pass; and main reaches the final
\* diagnosis
C17_AgentLoop ==
    /\ [](AgentLoopBounds)
    /\ [][AgentLoopPass]_vars
    /\ <>(agent.pc = "final")

\* ten passes each handled a function call, the response to the tenth asks for one
\* more, and main is at the final diagnosis
C17_Witness ==
    /\ agent.pc = "final"
    /\ agent.iteration = 10
    /\ agent.calls = 10
    /\ agent.handled # << >>
    /\ AsksForFunction(agent.response)

====
